---- MODULE Spec2Model ----
(***************************************************************************)
(* Per-request tenant-to-connection binding of package apartment:          *)
(* InjectTenantFromHeader, Middleware and Manager.ExtractConnection over a *)
(* pooled database handle, with the repository calls (UserRepo) that look  *)
(* the bound connection up from inside or outside a request's scope.       *)
(***************************************************************************)
EXTENDS Integers, Sequences, FiniteSets, TLC

(* ---------------------------------------------------------------- bounds *)
MaxReqs == 2
MaxTasks == 2
MaxConns == 2
MaxClock == 4
MaxBlogs == 3
MaxCallers == 2

Reqs == 1..MaxReqs
Tasks == 1..MaxTasks
PhysConns == 1..MaxConns
Times == 0..MaxClock

(* ------------------------------------------------------ program constants *)
StatusBadRequest == 400
StatusNotFound == 404
StatusInternalServerError == 500
SwitchTimeoutSeconds == 3
DefaultShutdownGrace == 5

ErrNoTenantBound == "no tenant bound for the context"
ErrNoConnectionBound == "no connection bound for the context"
ErrConnDone == "sql: connection is already closed"
ErrUserNameRequired == "user.name is required"
ErrEmptyBlogs == "empty blogs"
ErrBlogNotFound == "blog not found"
ErrBeginTxx == "BeginTxx: error"
ErrExecContext == "ExecContext: error"
ErrCommit == "Commit: error"
ErrGetContext == "GetContext: error"

(* ------------------------------------------------------------ value sets *)
Absent == "<absent>"          \* the request has no tenant-id header line
NoValue == "<no value>"       \* ctx.Value(key) is nil
NoConn == [owner |-> 0, phys |-> 0]   \* nil *sqlx.Conn
NoReq == 0                    \* a context that was never routed through Middleware
NoID == 0                     \* no xid.ID
NoResp == [status |-> 0, error |-> ""]
NoStmt == <<>>                \* no statement was sent
NoExec == [schema |-> "", phys |-> 0]
NoErr == "<nil>"
DefaultSchema == "<dsn schema>"
Free == <<"unlocked", 0>>
NoDeadline == -1              \* ctx.Deadline() reports ok = false
NoTime == -1                  \* the call was not made, or has not come back
NoArg == "<no call>"          \* the repository method is not being called
NilUser == "<nil user>"       \* RegisterUser(ctx, nil)
UserName == "alice"           \* a non-empty user name
NoCtx == [parentDone |-> FALSE, deadline |-> NoDeadline]
NoBlog == "<nil blog>"        \* nil *Blog
Callers == 1..MaxCallers      \* goroutines calling parseWithCache
NilStmt == [text |-> "<nil>", inst |-> 0]   \* nil ast.StmtNode
\* queries: empty, not SQL, without a statement, one statement, two
Queries == {"", "selec", "-- none", "select 1", "select 2; select 3"}
BlogIDs == {"", "b1"}         \* values of the blog_id parameter
ErrCanceled == "context canceled"
ErrDeadlineExceeded == "context deadline exceeded"

Tenants == {"acme", "globex"}
Headers == {Absent, ""} \cup Tenants
Deadlines == {NoDeadline} \cup Times

VARIABLES
  header,      \* [Reqs -> Headers]      tenant-id header of the request
  viaInject,   \* [Reqs -> BOOLEAN]      request went through InjectTenantFromHeader
  ctxTenant,   \* [Reqs -> value]        tenantCtxKey value of the request context
  pc,          \* [Reqs -> position]     position of the request in the handler chain
  tenant,      \* [Reqs -> value]        Middleware's local `tenant`
  conn,        \* [Reqs -> handle]       Middleware's local `conn`
  reqID,       \* [Reqs -> id]           Middleware's local `reqID`
  defers,      \* [Reqs -> Seq]          deferred calls of the Middleware frame
               \*   (the deferred cancel() of line 125 runs between the two
               \*   others and changes nothing of this state; it is left out)
  panicked,    \* [Reqs -> BOOLEAN]      the downstream handler panicked
  resp,        \* [Reqs -> response]     what Middleware wrote with respondError
  acquired,    \* [Reqs -> Nat]          number of successful h.db.Connx calls
  attempts,    \* [Reqs -> Nat]          number of h.db.Connx calls
  closes,      \* [Reqs -> Nat]          number of conn.Close calls
  switchStmt,  \* [Reqs -> statement]    statement sent by conn.ExecContext at line 126
  mux,         \* Manager.mux: Free or the holder
  conns,       \* Manager.conns: function xid.ID -> handle
  xidCounter,  \* xid's process-wide object counter
  leased,      \* [PhysConns -> BOOLEAN] pool: connection is handed out
  schema,      \* [PhysConns -> schema]  session schema of the physical connection
  tpc,         \* [Tasks -> position]    position of a repository call
  treq,        \* [Tasks -> Reqs \cup {NoReq}] request whose context the call got
  terr,        \* [Tasks -> error]       err returned by ExtractConnection
  tconn,       \* [Tasks -> handle]      conn returned by ExtractConnection
  tstmt,       \* [Tasks -> statement]   statement executed by the repository call
  invoked,     \* [Reqs -> Nat]          number of next.ServeHTTP calls of line 142
  now,         \* seconds on the clock of the process
  reqDeadline, \* [Reqs -> time]         deadline of the request context, or none
  exDeadline,  \* [Reqs -> time]         deadline of exCtx of line 124
  switchStart, \* [Reqs -> time]         when conn.ExecContext of line 126 was called
  switchEnd,   \* [Reqs -> time]         when conn.ExecContext of line 126 came back
  targ,        \* [Tasks -> argument]    user name the repository method was called with
  blogExec,    \* session a statement sent on the pool handle (BlogRepo) ran in
  grace,       \* Server.shutdownGrace in seconds
  srv,         \* position of Server.Start and of its shutdown goroutine
  inflight,    \* number of requests the http.Server is serving
  sdCtx,       \* the context hs.Shutdown is called with
  sdStart,     \* when hs.Shutdown was called
  sdEnd,       \* when hs.Shutdown came back
  sdErr,       \* what hs.Shutdown returned
  started,     \* Start: "no", "running" or "returned"
  cbPc,        \* position of a call of BlogRepo.CreateBlogs
  cbLen,       \* len(blogs) of that call
  cbIdx,       \* number of blogs inserted by it
  cbTried,     \* number of calls of r.create by it
  cbErr,       \* err it returned
  txBegun,     \* number of transactions begun
  txCommits,   \* number of tx.Commit calls
  txRollbacks, \* number of tx.Rollback calls
  txState,     \* the transaction: "none", "open", "committed", "rolled back"
  gbPc,        \* position of handleGetBlog
  gbID,        \* its blog_id parameter
  gbFind,      \* what FindBlogByID returned to it
  gbStatus,    \* status it passed to WriteHeader, 0 before any call
  gbBody,      \* JSON documents written to its response, in order
  dirty,       \* mapCache.dirty: query -> statement
  cpc,         \* position of each caller of parseWithCache
  cq,          \* its query
  cstmt,       \* its local variable stmt
  cret,        \* what parseWithCache returned to it
  parses       \* number of statements ParseSQL has built so far

reqVars == <<header, viaInject, ctxTenant, pc, tenant, conn, reqID, defers,
             panicked, resp, acquired, attempts, closes, switchStmt, invoked>>
mgrVars == <<mux, conns, xidCounter>>
poolVars == <<leased, schema>>
taskVars == <<tpc, treq, terr, tconn, tstmt, targ>>
timeVars == <<now, reqDeadline, exDeadline, switchStart, switchEnd>>
coreVars == <<reqVars, mgrVars, poolVars, taskVars, timeVars>>
sharedVars == <<blogExec>>
srvVars == <<grace, srv, inflight, sdCtx, sdStart, sdEnd, sdErr, started>>
cbVars == <<cbPc, cbLen, cbIdx, cbTried, cbErr, txBegun, txCommits,
           txRollbacks, txState>>
gbVars == <<gbPc, gbID, gbFind, gbStatus, gbBody>>
cacheVars == <<dirty, cpc, cq, cstmt, cret, parses>>
extVars == <<sharedVars, srvVars, cbVars, gbVars, cacheVars>>
exceptShared == <<srvVars, cbVars, gbVars, cacheVars>>
exceptSrv == <<sharedVars, cbVars, gbVars, cacheVars>>
exceptCb == <<sharedVars, srvVars, gbVars, cacheVars>>
exceptGb == <<sharedVars, srvVars, cbVars, cacheVars>>
exceptCache == <<sharedVars, srvVars, cbVars, gbVars>>
vars == <<coreVars, extVars>>

(* ------------------------------------------------------- pure functions *)

\* http.Header.Get: the first value of the header, "" when there is none.
HeaderGet(h) == IF h = Absent THEN "" ELSE h

\* context.WithValue(ctx, tenantCtxKey{}, tenant): the value the key now has.
WithTenant(t) == t

\* defaultGetTenant reading a key that Inject does not set and falling back to
\* the zero Tenant
defaultGetTenantZero(v) == [tenant |-> "", ok |-> TRUE]

\* ctx.Value(tenantCtxKey{}).(Tenant): the type assertion succeeds for every
\* Tenant, the empty one included, and fails only when the key has no value.
defaultGetTenant(v) ==
  IF v = NoValue THEN [tenant |-> "", ok |-> FALSE]
                 ELSE [tenant |-> v, ok |-> TRUE]

\* ctx.Value(reqIDCtxKey{}).(xid.ID) of the context a call was given: the
\* context of request q carries q's reqID, any other context carries none.
RequestIDFromContext(q) ==
  IF q = NoReq THEN [id |-> NoID, ok |-> FALSE]
               ELSE [id |-> reqID[q], ok |-> reqID[q] # NoID]

\* the counter is read but not advanced: the last ID is handed out again
xidNewRepeated == IF xidCounter = 0 THEN 1 ELSE xidCounter

\* xid.New(): the next value of the process-wide counter.
xidNew == xidCounter + 1

\* fmt.Sprintf("use %s", tenant)
UseStmt(t) == <<"use", t>>

\* json body written by respondError
respondError(status, msg) == [status |-> status, error |-> msg]

\* the database accepts "use <name>" only for a name; "use " is a syntax error
SwitchAccepted(t) == t # ""

\* context.WithTimeout(parent, d): the deadline of the derived context is
\* now + d, or the parent's deadline when that one is earlier.
WithTimeout(parent, d) ==
  IF parent = NoDeadline \/ now + d < parent THEN now + d ELSE parent

\* a context with deadline dl is done at time t
Expired(dl, t) == dl # NoDeadline /\ t >= dl

\* sql.Conn: a handle is done once Close was called on it
Done(c) == closes[c.owner] > 0

(* ------------------------------------------------------------------ Init *)
Init ==
  /\ header = [r \in Reqs |-> Absent]
  /\ viaInject = [r \in Reqs |-> FALSE]
  /\ ctxTenant = [r \in Reqs |-> NoValue]
  /\ pc = [r \in Reqs |-> "start"]
  /\ tenant = [r \in Reqs |-> NoValue]
  /\ conn = [r \in Reqs |-> NoConn]
  /\ reqID = [r \in Reqs |-> NoID]
  /\ defers = [r \in Reqs |-> <<>>]
  /\ panicked = [r \in Reqs |-> FALSE]
  /\ resp = [r \in Reqs |-> NoResp]
  /\ acquired = [r \in Reqs |-> 0]
  /\ attempts = [r \in Reqs |-> 0]
  /\ closes = [r \in Reqs |-> 0]
  /\ switchStmt = [r \in Reqs |-> NoStmt]
  /\ mux = Free
  /\ conns = <<>>
  /\ xidCounter = 0
  /\ leased = [p \in PhysConns |-> FALSE]
  /\ schema = [p \in PhysConns |-> DefaultSchema]
  /\ tpc = [t \in Tasks |-> "idle"]
  /\ treq = [t \in Tasks |-> NoReq]
  /\ terr = [t \in Tasks |-> NoErr]
  /\ tconn = [t \in Tasks |-> NoConn]
  /\ tstmt = [t \in Tasks |-> NoExec]
  /\ invoked = [r \in Reqs |-> 0]
  /\ now = 0
  /\ reqDeadline = [r \in Reqs |-> NoDeadline]
  /\ exDeadline = [r \in Reqs |-> NoDeadline]
  /\ switchStart = [r \in Reqs |-> NoTime]
  /\ switchEnd = [r \in Reqs |-> NoTime]
  /\ targ = [t \in Tasks |-> NoArg]
  /\ blogExec = NoExec
  /\ grace = 0
  /\ srv = "new"
  /\ inflight = 0
  /\ sdCtx = NoCtx
  /\ sdStart = NoTime
  /\ sdEnd = NoTime
  /\ sdErr = NoErr
  /\ started = "no"
  /\ cbPc = "idle"
  /\ cbLen = 0
  /\ cbIdx = 0
  /\ cbTried = 0
  /\ cbErr = NoErr
  /\ txBegun = 0
  /\ txCommits = 0
  /\ txRollbacks = 0
  /\ txState = "none"
  /\ gbPc = "idle"
  /\ gbID = ""
  /\ gbFind = [blog |-> NoBlog, err |-> NoErr]
  /\ gbStatus = 0
  /\ gbBody = <<>>
  /\ dirty = <<>>
  /\ cpc = [c \in Callers |-> "idle"]
  /\ cq = [c \in Callers |-> ""]
  /\ cstmt = [c \in Callers |-> NilStmt]
  /\ cret = [c \in Callers |-> NilStmt]
  /\ parses = 0

(* ------------------------------------------------- the handler chain *)

\* Requests are served in the order of their numbers: a request arrives when
\* the ones before it have arrived (they then run concurrently).
Arrives(r) == pc[r] = "start" /\ \A q \in Reqs : q < r => pc[q] # "start"

\* InjectTenantFromHeader (web.go mounts it in front of Middleware): the
\* header value, empty or not, is stored in the request context.
InjectTenantFromHeader(r) ==
  /\ Arrives(r)
  /\ \E h \in Headers :
       /\ header' = [header EXCEPT ![r] = h]
       /\ ctxTenant' = [ctxTenant EXCEPT ![r] = WithTenant(HeaderGet(h))]
  /\ viaInject' = [viaInject EXCEPT ![r] = TRUE]
  /\ pc' = [pc EXCEPT ![r] = "mw"]
  /\ UNCHANGED <<tenant, conn, reqID, defers, panicked, resp, acquired,
                 attempts, closes, switchStmt, mgrVars, poolVars, taskVars,
                 invoked, timeVars, extVars>>

\* Middleware mounted on its own: nothing reads the header and the request
\* context has no tenant value.
ServeWithoutInject(r) ==
  /\ Arrives(r)
  /\ pc' = [pc EXCEPT ![r] = "mw"]
  /\ UNCHANGED <<header, viaInject, ctxTenant, tenant, conn, reqID, defers, panicked,
                 resp, acquired, attempts, closes, switchStmt, mgrVars,
                 poolVars, taskVars,
                 invoked, timeVars, extVars>>

\* MwGetTenant without the return of line 106: the error is answered and
\* Middleware goes on with the zero Tenant
MwGetTenantNoReturn(r) ==
  /\ pc[r] = "mw"
  /\ LET got == defaultGetTenant(ctxTenant[r]) IN
       /\ resp' = IF got.ok THEN resp
                  ELSE [resp EXCEPT ![r] =
                          respondError(StatusBadRequest, "no tenant found")]
       /\ tenant' = [tenant EXCEPT ![r] = got.tenant]
       /\ ctxTenant' = [ctxTenant EXCEPT ![r] = WithTenant(got.tenant)]
       /\ pc' = [pc EXCEPT ![r] = "acquire"]
  /\ UNCHANGED <<header, viaInject, conn, reqID, defers, panicked, acquired,
                 attempts, closes, switchStmt, mgrVars, poolVars, taskVars,
                 invoked, timeVars, extVars>>

\* Middleware, lines 100-110: tenant, ok := h.getTenant(ctx)
MwGetTenant(r) ==
  /\ pc[r] = "mw"
  /\ LET got == defaultGetTenant(ctxTenant[r]) IN
       IF ~got.ok
         THEN /\ resp' = [resp EXCEPT ![r] =
                            respondError(StatusBadRequest, "no tenant found")]
              /\ pc' = [pc EXCEPT ![r] = "done"]
              /\ UNCHANGED <<tenant, ctxTenant>>
         ELSE /\ tenant' = [tenant EXCEPT ![r] = got.tenant]
              /\ ctxTenant' = [ctxTenant EXCEPT ![r] = WithTenant(got.tenant)]
              /\ pc' = [pc EXCEPT ![r] = "acquire"]
              /\ UNCHANGED resp
  /\ UNCHANGED <<header, viaInject, conn, reqID, defers, panicked, acquired,
                 attempts, closes, switchStmt, mgrVars, poolVars, taskVars,
                 invoked, timeVars, extVars>>

\* sql.DB.Conn: the pool hands out a connection that is not in use. Which of
\* several it takes cannot be told apart by the program; the lowest is taken.
\* the handle is taken from the connections of the pool whether they are in
\* use or not
PoolAny == PhysConns
PoolIdle == {p \in PhysConns : ~leased[p]}
PoolPick == CHOOSE p \in PoolIdle : \A q \in PoolIdle : p <= q

\* MwAcquire without the deferred Close
MwAcquireNoDefer(r) ==
  /\ pc[r] = "acquire"
  /\ PoolIdle # {}
  /\ leased' = [leased EXCEPT ![PoolPick] = TRUE]
  /\ conn' = [conn EXCEPT ![r] = [owner |-> r, phys |-> PoolPick]]
  /\ attempts' = [attempts EXCEPT ![r] = @ + 1]
  /\ acquired' = [acquired EXCEPT ![r] = @ + 1]
  /\ pc' = [pc EXCEPT ![r] = "switch"]
  /\ UNCHANGED <<header, viaInject, ctxTenant, tenant, reqID, defers, panicked,
                 resp, closes, switchStmt, mgrVars, schema, taskVars,
                 invoked, timeVars, extVars>>

\* Middleware, lines 111 and 117-122: h.db.Connx(ctx) succeeds; the deferred
\* Close is registered.
MwAcquire(r) ==
  /\ pc[r] = "acquire"
  /\ PoolIdle # {}
  /\ leased' = [leased EXCEPT ![PoolPick] = TRUE]
  /\ conn' = [conn EXCEPT ![r] = [owner |-> r, phys |-> PoolPick]]
  /\ attempts' = [attempts EXCEPT ![r] = @ + 1]
  /\ acquired' = [acquired EXCEPT ![r] = @ + 1]
  /\ defers' = [defers EXCEPT ![r] = <<"close">> \o @]
  /\ pc' = [pc EXCEPT ![r] = "switch"]
  /\ UNCHANGED <<header, viaInject, ctxTenant, tenant, reqID, panicked, resp,
                 closes, switchStmt, mgrVars, schema, taskVars,
                 invoked, timeVars, extVars>>

\* MwAcquireFail trying Connx a second time before it answers
MwAcquireFailRetry(r) ==
  /\ pc[r] = "acquire"
  /\ attempts' = [attempts EXCEPT ![r] = @ + 1]
  /\ IF attempts[r] = 0
       THEN UNCHANGED <<resp, pc>>
       ELSE /\ resp' = [resp EXCEPT ![r] =
                 respondError(StatusInternalServerError,
                              "failed to open new connection")]
            /\ pc' = [pc EXCEPT ![r] = "done"]
  /\ UNCHANGED <<header, viaInject, ctxTenant, tenant, conn, reqID, defers,
                 panicked, acquired, closes, switchStmt, mgrVars, poolVars,
                 taskVars, invoked, timeVars, extVars>>

\* Middleware, lines 111-116: Connx fails (pool exhausted until the request
\* context ends, connect error, cancelled context).
MwAcquireFail(r) ==
  /\ pc[r] = "acquire"
  /\ attempts' = [attempts EXCEPT ![r] = @ + 1]
  /\ resp' = [resp EXCEPT ![r] =
       respondError(StatusInternalServerError, "failed to open new connection")]
  /\ pc' = [pc EXCEPT ![r] = "done"]
  /\ UNCHANGED <<header, viaInject, ctxTenant, tenant, conn, reqID, defers,
                 panicked, acquired, closes, switchStmt, mgrVars, poolVars,
                 taskVars,
                 invoked, timeVars, extVars>>

\* MwSwitch sending the statement to the pool (h.db) instead of conn: it
\* runs on some other connection and conn stays in the schema it was in
MwSwitchOnPool(r) ==
  /\ pc[r] = "switch"
  /\ SwitchAccepted(tenant[r])
  /\ switchStmt' = [switchStmt EXCEPT ![r] = UseStmt(tenant[r])]
  /\ pc' = [pc EXCEPT ![r] = "bind"]
  /\ UNCHANGED <<header, viaInject, ctxTenant, tenant, conn, reqID, defers,
                 panicked, resp, acquired, attempts, closes, mgrVars, poolVars,
                 taskVars,
                 invoked, timeVars, extVars>>

\* Middleware, lines 124-126 and 131: the switch statement succeeds.
MwSwitch(r) ==
  /\ pc[r] = "switch"
  /\ SwitchAccepted(tenant[r])
  /\ switchStmt' = [switchStmt EXCEPT ![r] = UseStmt(tenant[r])]
  /\ schema' = [schema EXCEPT ![conn[r].phys] = tenant[r]]
  /\ pc' = [pc EXCEPT ![r] = "bind"]
  /\ UNCHANGED <<header, viaInject, ctxTenant, tenant, conn, reqID, defers,
                 panicked, resp, acquired, attempts, closes, mgrVars, leased,
                 taskVars,
                 invoked, timeVars, extVars>>

\* MwSwitchFail without the return of line 129: the error is answered and
\* Middleware goes on to bind
MwSwitchFailNoReturn(r) ==
  /\ pc[r] = "switch"
  /\ switchStmt' = [switchStmt EXCEPT ![r] = UseStmt(tenant[r])]
  /\ \E ran \in BOOLEAN :
       /\ ran => SwitchAccepted(tenant[r])
       /\ schema' = IF ran THEN [schema EXCEPT ![conn[r].phys] = tenant[r]]
                          ELSE schema
  /\ resp' = [resp EXCEPT ![r] =
       respondError(StatusInternalServerError, "failed to change the tenant")]
  /\ pc' = [pc EXCEPT ![r] = "bind"]
  /\ UNCHANGED <<header, viaInject, ctxTenant, tenant, conn, reqID, defers,
                 panicked, acquired, attempts, closes, mgrVars, leased,
                 taskVars, invoked, timeVars, extVars>>

\* Middleware, lines 124-130: the switch statement fails (rejected by the
\* database, the 3 second bound or the request context ended); when the
\* statement was acceptable the server may have run it all the same.
MwSwitchFail(r) ==
  /\ pc[r] = "switch"
  /\ switchStmt' = [switchStmt EXCEPT ![r] = UseStmt(tenant[r])]
  /\ \E ran \in BOOLEAN :
       /\ ran => SwitchAccepted(tenant[r])
       /\ schema' = IF ran THEN [schema EXCEPT ![conn[r].phys] = tenant[r]]
                          ELSE schema
  /\ resp' = [resp EXCEPT ![r] =
       respondError(StatusInternalServerError, "failed to change the tenant")]
  /\ pc' = [pc EXCEPT ![r] = "unwind"]
  /\ UNCHANGED <<header, viaInject, ctxTenant, tenant, conn, reqID, defers,
                 panicked, acquired, attempts, closes, mgrVars, leased,
                 taskVars,
                 invoked, timeVars, extVars>>

(* The switch of lines 124-130 with its clock: the call of ExecContext and
   its return are two steps, and time passes in between. *)

\* the statement is executed with the request context itself, without the
\* context.WithTimeout of line 124
MwSwitchCallNoTimeout(r) ==
  /\ pc[r] = "switch"
  /\ \E d \in Deadlines :
       /\ reqDeadline' = [reqDeadline EXCEPT ![r] = d]
       /\ exDeadline' = [exDeadline EXCEPT ![r] = d]
  /\ switchStart' = [switchStart EXCEPT ![r] = now]
  /\ switchStmt' = [switchStmt EXCEPT ![r] = UseStmt(tenant[r])]
  /\ pc' = [pc EXCEPT ![r] = "switch_wait"]
  /\ UNCHANGED <<header, viaInject, ctxTenant, tenant, conn, reqID, defers,
                 panicked, resp, acquired, attempts, closes, invoked, mgrVars,
                 poolVars, taskVars, now, switchEnd, extVars>>

\* Middleware, lines 124-126: exCtx is derived from the request context,
\* whose deadline is any or none, and conn.ExecContext is called with it.
MwSwitchCall(r) ==
  /\ pc[r] = "switch"
  /\ \E d \in Deadlines :
       /\ reqDeadline' = [reqDeadline EXCEPT ![r] = d]
       /\ exDeadline' = [exDeadline EXCEPT ![r] =
                           WithTimeout(d, SwitchTimeoutSeconds)]
  /\ switchStart' = [switchStart EXCEPT ![r] = now]
  /\ switchStmt' = [switchStmt EXCEPT ![r] = UseStmt(tenant[r])]
  /\ pc' = [pc EXCEPT ![r] = "switch_wait"]
  /\ UNCHANGED <<header, viaInject, ctxTenant, tenant, conn, reqID, defers,
                 panicked, resp, acquired, attempts, closes, invoked, mgrVars,
                 poolVars, taskVars, now, switchEnd, extVars>>

\* Middleware, lines 126 and 131: the statement completes before exCtx is
\* done and err is nil.
MwSwitchDone(r) ==
  /\ pc[r] = "switch_wait"
  /\ ~Expired(exDeadline[r], now)
  /\ SwitchAccepted(tenant[r])
  /\ schema' = [schema EXCEPT ![conn[r].phys] = tenant[r]]
  /\ switchEnd' = [switchEnd EXCEPT ![r] = now]
  /\ pc' = [pc EXCEPT ![r] = "bind"]
  /\ UNCHANGED <<header, viaInject, ctxTenant, tenant, conn, reqID, defers,
                 panicked, resp, acquired, attempts, closes, switchStmt,
                 invoked, mgrVars, leased, taskVars, now, reqDeadline,
                 exDeadline, switchStart, extVars>>

\* Middleware, lines 126-130: the database answers with an error before exCtx
\* is done.
MwSwitchRejected(r) ==
  /\ pc[r] = "switch_wait"
  /\ ~Expired(exDeadline[r], now)
  /\ switchEnd' = [switchEnd EXCEPT ![r] = now]
  /\ resp' = [resp EXCEPT ![r] =
       respondError(StatusInternalServerError, "failed to change the tenant")]
  /\ pc' = [pc EXCEPT ![r] = "unwind"]
  /\ UNCHANGED <<header, viaInject, ctxTenant, tenant, conn, reqID, defers,
                 panicked, acquired, attempts, closes, switchStmt, invoked,
                 mgrVars, poolVars, taskVars, now, reqDeadline, exDeadline,
                 switchStart, extVars>>

\* Middleware, lines 126-130: exCtx is done while the statement has not come
\* back; ExecContext returns the error of the context. The server may have
\* run an acceptable statement all the same.
MwSwitchExpired(r) ==
  /\ pc[r] = "switch_wait"
  /\ Expired(exDeadline[r], now)
  /\ \E ran \in BOOLEAN :
       /\ ran => SwitchAccepted(tenant[r])
       /\ schema' = IF ran THEN [schema EXCEPT ![conn[r].phys] = tenant[r]]
                          ELSE schema
  /\ switchEnd' = [switchEnd EXCEPT ![r] = now]
  /\ resp' = [resp EXCEPT ![r] =
       respondError(StatusInternalServerError, "failed to change the tenant")]
  /\ pc' = [pc EXCEPT ![r] = "unwind"]
  /\ UNCHANGED <<header, viaInject, ctxTenant, tenant, conn, reqID, defers,
                 panicked, acquired, attempts, closes, switchStmt, invoked,
                 mgrVars, leased, taskVars, now, reqDeadline, exDeadline,
                 switchStart, extVars>>

\* A second passes while some ExecContext of line 126 is waiting (seconds in
\* which no call waits are not counted). The timer of a context fires at its
\* deadline: the clock does not move past the deadline of an exCtx whose
\* ExecContext is waiting.
Tick ==
  /\ now < MaxClock
  /\ \E r \in Reqs : pc[r] = "switch_wait"
  /\ \A r \in Reqs : pc[r] = "switch_wait" => ~Expired(exDeadline[r], now)
  /\ now' = now + 1
  /\ UNCHANGED <<reqVars, mgrVars, poolVars, taskVars, reqDeadline, exDeadline,
                 switchStart, switchEnd, extVars>>

\* MwBindLock without the Lock of line 132
MwBindLockSkipped(r) ==
  /\ pc[r] = "bind"
  /\ pc' = [pc EXCEPT ![r] = "bind_locked"]
  /\ UNCHANGED <<header, viaInject, ctxTenant, tenant, conn, reqID, defers,
                 panicked, resp, acquired, attempts, closes, switchStmt,
                 mgrVars, poolVars, taskVars, invoked, timeVars, extVars>>

\* Middleware, line 132: h.mux.Lock()
MwBindLock(r) ==
  /\ pc[r] = "bind"
  /\ mux = Free
  /\ mux' = <<"req", r>>
  /\ pc' = [pc EXCEPT ![r] = "bind_locked"]
  /\ UNCHANGED <<header, viaInject, ctxTenant, tenant, conn, reqID, defers,
                 panicked, resp, acquired, attempts, closes, switchStmt,
                 conns, xidCounter, poolVars, taskVars,
                 invoked, timeVars, extVars>>

\* MwBind putting a second, fresh ID into the context of the handler
MwBindOtherCtxID(r) ==
  /\ pc[r] = "bind_locked"
  /\ LET id == xidNew IN
       /\ xidCounter' = xidCounter + 2
       /\ reqID' = [reqID EXCEPT ![r] = id + 1]
       /\ conns' = [k \in DOMAIN conns \cup {id} |->
                      IF k = id THEN conn[r] ELSE conns[k]]
  /\ mux' = Free
  /\ defers' = [defers EXCEPT ![r] = <<"unbind">> \o @]
  /\ pc' = [pc EXCEPT ![r] = "handler"]
  /\ invoked' = [invoked EXCEPT ![r] = @ + 1]
  /\ UNCHANGED <<header, viaInject, ctxTenant, tenant, conn, panicked, resp,
                 acquired, attempts, closes, switchStmt, poolVars, taskVars,
                 timeVars, extVars>>

\* MwBind with the delete running after the Close instead of before it
MwBindDeferLast(r) ==
  /\ pc[r] = "bind_locked"
  /\ LET id == xidNew IN
       /\ xidCounter' = xidCounter + 1
       /\ reqID' = [reqID EXCEPT ![r] = id]
       /\ conns' = [k \in DOMAIN conns \cup {id} |->
                      IF k = id THEN conn[r] ELSE conns[k]]
  /\ mux' = Free
  /\ defers' = [defers EXCEPT ![r] = Append(@, "unbind")]
  /\ pc' = [pc EXCEPT ![r] = "handler"]
  /\ invoked' = [invoked EXCEPT ![r] = @ + 1]
  /\ UNCHANGED <<header, viaInject, ctxTenant, tenant, conn, panicked, resp,
                 acquired, attempts, closes, switchStmt, poolVars, taskVars,
                 timeVars, extVars>>

\* MwBind without line 134: the handler is called with the request ID in its
\* context and no entry under it
MwBindNoInsert(r) ==
  /\ pc[r] = "bind_locked"
  /\ LET id == xidNew IN
       /\ xidCounter' = xidCounter + 1
       /\ reqID' = [reqID EXCEPT ![r] = id]
       /\ conns' = conns
  /\ mux' = Free
  /\ defers' = [defers EXCEPT ![r] = <<"unbind">> \o @]
  /\ pc' = [pc EXCEPT ![r] = "handler"]
  /\ invoked' = [invoked EXCEPT ![r] = @ + 1]
  /\ UNCHANGED <<header, viaInject, ctxTenant, tenant, conn, panicked, resp,
                 acquired, attempts, closes, switchStmt, poolVars, taskVars,
                 timeVars, extVars>>

\* Middleware, lines 133-142: mint the request ID, insert it, unlock, register
\* the deferred delete and call the downstream handler with the new context.
MwBind(r) ==
  /\ pc[r] = "bind_locked"
  /\ LET id == xidNew IN
       /\ xidCounter' = xidCounter + 1
       /\ reqID' = [reqID EXCEPT ![r] = id]
       /\ conns' = [k \in DOMAIN conns \cup {id} |->
                      IF k = id THEN conn[r] ELSE conns[k]]
  /\ mux' = Free
  /\ defers' = [defers EXCEPT ![r] = <<"unbind">> \o @]
  /\ pc' = [pc EXCEPT ![r] = "handler"]
  /\ invoked' = [invoked EXCEPT ![r] = @ + 1]
  /\ UNCHANGED <<header, viaInject, ctxTenant, tenant, conn, panicked, resp,
                 acquired, attempts, closes, switchStmt, poolVars, taskVars,
                 timeVars, extVars>>

\* next.ServeHTTP returns.
HandlerReturn(r) ==
  /\ pc[r] = "handler"
  /\ pc' = [pc EXCEPT ![r] = "unwind"]
  /\ UNCHANGED <<header, viaInject, ctxTenant, tenant, conn, reqID, defers,
                 panicked, resp, acquired, attempts, closes, switchStmt,
                 mgrVars, poolVars, taskVars,
                 invoked, timeVars, extVars>>

\* next.ServeHTTP panics: the frame unwinds through its deferred calls.
HandlerPanic(r) ==
  /\ pc[r] = "handler"
  /\ panicked' = [panicked EXCEPT ![r] = TRUE]
  /\ pc' = [pc EXCEPT ![r] = "unwind"]
  /\ UNCHANGED <<header, viaInject, ctxTenant, tenant, conn, reqID, defers,
                 resp, acquired, attempts, closes, switchStmt, mgrVars,
                 poolVars, taskVars,
                 invoked, timeVars, extVars>>

\* position after the deferred call on top of the stack has run
AfterDefer(r) == IF Len(defers[r]) = 1 THEN "done" ELSE "unwind"

\* deferred func of lines 136-141, line 138: h.mux.Lock()
MwUnbindLock(r) ==
  /\ pc[r] = "unwind"
  /\ defers[r] # <<>> /\ Head(defers[r]) = "unbind"
  /\ mux = Free
  /\ mux' = <<"req", r>>
  /\ pc' = [pc EXCEPT ![r] = "unbind_locked"]
  /\ UNCHANGED <<header, viaInject, ctxTenant, tenant, conn, reqID, defers,
                 panicked, resp, acquired, attempts, closes, switchStmt,
                 conns, xidCounter, poolVars, taskVars,
                 invoked, timeVars, extVars>>

\* the delete written after next.ServeHTTP instead of deferred: a panic
\* skips it
MwUnbindSkippedOnPanic(r) ==
  /\ pc[r] = "unbind_locked"
  /\ conns' = IF panicked[r] THEN conns
               ELSE [k \in DOMAIN conns \ {reqID[r]} |-> conns[k]]
  /\ mux' = Free
  /\ pc' = [pc EXCEPT ![r] = AfterDefer(r)]
  /\ defers' = [defers EXCEPT ![r] = Tail(@)]
  /\ UNCHANGED <<header, viaInject, ctxTenant, tenant, conn, reqID, panicked,
                 resp, acquired, attempts, closes, switchStmt, xidCounter,
                 poolVars, taskVars,
                 invoked, timeVars, extVars>>

\* MwUnbind emptying the map instead of deleting its own key
MwUnbindClears(r) ==
  /\ pc[r] = "unbind_locked"
  /\ conns' = <<>>
  /\ mux' = Free
  /\ pc' = [pc EXCEPT ![r] = AfterDefer(r)]
  /\ defers' = [defers EXCEPT ![r] = Tail(@)]
  /\ UNCHANGED <<header, viaInject, ctxTenant, tenant, conn, reqID, panicked,
                 resp, acquired, attempts, closes, switchStmt, xidCounter,
                 poolVars, taskVars, invoked, timeVars, extVars>>

\* deferred func of lines 136-141, lines 139-140: delete and unlock
MwUnbind(r) ==
  /\ pc[r] = "unbind_locked"
  /\ conns' = [k \in DOMAIN conns \ {reqID[r]} |-> conns[k]]
  /\ mux' = Free
  /\ pc' = [pc EXCEPT ![r] = AfterDefer(r)]
  /\ defers' = [defers EXCEPT ![r] = Tail(@)]
  /\ UNCHANGED <<header, viaInject, ctxTenant, tenant, conn, reqID, panicked,
                 resp, acquired, attempts, closes, switchStmt, xidCounter,
                 poolVars, taskVars,
                 invoked, timeVars, extVars>>

\* deferred func of lines 117-122: conn.Close() gives the connection back
MwClose(r) ==
  /\ pc[r] = "unwind"
  /\ defers[r] # <<>> /\ Head(defers[r]) = "close"
  /\ closes' = [closes EXCEPT ![r] = @ + 1]
  /\ leased' = IF Done(conn[r]) THEN leased
                ELSE [leased EXCEPT ![conn[r].phys] = FALSE]
  /\ pc' = [pc EXCEPT ![r] = AfterDefer(r)]
  /\ defers' = [defers EXCEPT ![r] = Tail(@)]
  /\ UNCHANGED <<header, viaInject, ctxTenant, tenant, conn, reqID, panicked,
                 resp, acquired, attempts, switchStmt, mgrVars, schema,
                 taskVars,
                 invoked, timeVars, extVars>>

(* ------------------------------------------- repository calls (tasks) *)

\* requests whose context with the request ID exists (line 142 was reached)
Scoped == {r \in Reqs : pc[r] \in {"handler", "unwind", "unbind_locked", "done"}
                        /\ reqID[r] # NoID}

\* Manager.ExtractConnection, lines 72-75, called by a repository method with
\* the context of a request (from the handler, from a sub-task of it, or from
\* a task that kept the context) or with a context that has no request ID.
ExtractStart(t) ==
  /\ tpc[t] = "idle"
  /\ \E q \in Scoped \cup {NoReq} :
       /\ treq' = [treq EXCEPT ![t] = q]
       /\ IF ~RequestIDFromContext(q).ok
            THEN /\ terr' = [terr EXCEPT ![t] = ErrNoConnectionBound]
                 /\ tpc' = [tpc EXCEPT ![t] = "returned"]
            ELSE /\ tpc' = [tpc EXCEPT ![t] = "lock"]
                 /\ UNCHANGED terr
  /\ targ' = [targ EXCEPT ![t] = UserName]
  /\ UNCHANGED <<tconn, tstmt, reqVars, mgrVars, poolVars, timeVars, extVars>>

\* Manager.ExtractConnection, line 76: h.mux.Lock()
ExtractLock(t) ==
  /\ tpc[t] = "lock"
  /\ mux = Free
  /\ mux' = <<"task", t>>
  /\ tpc' = [tpc EXCEPT ![t] = "locked"]
  /\ UNCHANGED <<treq, targ, terr, tconn, tstmt, reqVars, conns, xidCounter, poolVars, timeVars, extVars>>

\* ExtractConnection with the Unlock written on the success path only
\* instead of deferred: a missing entry returns with the mutex held
ExtractLookupKeepsLock(t) ==
  /\ tpc[t] = "locked"
  /\ LET id == RequestIDFromContext(treq[t]).id IN
       IF id \notin DOMAIN conns
         THEN /\ terr' = [terr EXCEPT ![t] = ErrNoConnectionBound]
              /\ UNCHANGED <<tconn, mux>>
         ELSE /\ tconn' = [tconn EXCEPT ![t] = conns[id]]
              /\ mux' = Free
              /\ UNCHANGED terr
  /\ tpc' = [tpc EXCEPT ![t] = "returned"]
  /\ UNCHANGED <<treq, targ, tstmt, reqVars, conns, xidCounter, poolVars,
                 timeVars, extVars>>

\* ExtractConnection without the check of ok: a missing entry is returned as
\* a nil connection and a nil error
ExtractLookupNoCheck(t) ==
  /\ tpc[t] = "locked"
  /\ LET id == RequestIDFromContext(treq[t]).id IN
       tconn' = [tconn EXCEPT ![t] =
                   IF id \in DOMAIN conns THEN conns[id] ELSE NoConn]
  /\ mux' = Free
  /\ tpc' = [tpc EXCEPT ![t] = "returned"]
  /\ UNCHANGED <<treq, targ, terr, tstmt, reqVars, conns, xidCounter, poolVars, timeVars, extVars>>

\* Manager.ExtractConnection, lines 77-82: the lookup, the deferred Unlock
ExtractLookup(t) ==
  /\ tpc[t] = "locked"
  /\ LET id == RequestIDFromContext(treq[t]).id IN
       IF id \notin DOMAIN conns
         THEN /\ terr' = [terr EXCEPT ![t] = ErrNoConnectionBound]
              /\ UNCHANGED tconn
         ELSE /\ tconn' = [tconn EXCEPT ![t] = conns[id]]
              /\ UNCHANGED terr
  /\ mux' = Free
  /\ tpc' = [tpc EXCEPT ![t] = "returned"]
  /\ UNCHANGED <<treq, targ, tstmt, reqVars, conns, xidCounter, poolVars, timeVars, extVars>>

\* RepoExec falling back to a connection of the pool when ExtractConnection
\* failed
RepoExecFallback(t) ==
  /\ tpc[t] = "returned"
  /\ IF terr[t] # NoErr
       THEN /\ terr' = [terr EXCEPT ![t] = NoErr]
            /\ tstmt' = [tstmt EXCEPT ![t] =
                 [schema |-> DefaultSchema, phys |-> tconn[t].phys]]
       ELSE IF Done(tconn[t])
         THEN /\ terr' = [terr EXCEPT ![t] = ErrConnDone]
              /\ UNCHANGED tstmt
         ELSE /\ tstmt' = [tstmt EXCEPT ![t] =
                     [schema |-> schema[tconn[t].phys], phys |-> tconn[t].phys]]
              /\ UNCHANGED terr
  /\ tpc' = [tpc EXCEPT ![t] = "finished"]
  /\ UNCHANGED <<treq, targ, tconn, reqVars, mgrVars, poolVars, timeVars,
                 extVars>>

\* UserRepo.RegisterUser, lines 74-82: return the error of ExtractConnection,
\* else execute the statement on the returned connection. A handle that was
\* closed executes nothing (ErrConnDone); a live one runs the statement in the
\* session of its physical connection.
RepoExec(t) ==
  /\ tpc[t] = "returned"
  /\ IF terr[t] # NoErr
       THEN UNCHANGED <<terr, tstmt>>
       ELSE IF Done(tconn[t])
         THEN /\ terr' = [terr EXCEPT ![t] = ErrConnDone]
              /\ UNCHANGED tstmt
         ELSE /\ tstmt' = [tstmt EXCEPT ![t] =
                     [schema |-> schema[tconn[t].phys], phys |-> tconn[t].phys]]
              /\ UNCHANGED terr
  /\ tpc' = [tpc EXCEPT ![t] = "finished"]
  /\ UNCHANGED <<treq, targ, tconn, reqVars, mgrVars, poolVars, timeVars, extVars>>

\* the repository call is over; the task may make another one
RepoDone(t) ==
  /\ tpc[t] = "finished"
  /\ tpc' = [tpc EXCEPT ![t] = "idle"]
  /\ treq' = [treq EXCEPT ![t] = NoReq]
  /\ terr' = [terr EXCEPT ![t] = NoErr]
  /\ tconn' = [tconn EXCEPT ![t] = NoConn]
  /\ tstmt' = [tstmt EXCEPT ![t] = NoExec]
  /\ targ' = [targ EXCEPT ![t] = NoArg]
  /\ UNCHANGED <<reqVars, mgrVars, poolVars, timeVars, extVars>>

\* arguments RegisterUser and FetchUserByName refuse: a nil user (RegisterUser
\* only) or an empty name
InvalidArgs == {NilUser, ""}

\* the validation written after ExtractConnection: the call goes to the
\* connection manager with the invalid argument
RepoRejectsLate(t) ==
  /\ tpc[t] = "idle"
  /\ \E a \in InvalidArgs : targ' = [targ EXCEPT ![t] = a]
  /\ \E q \in Scoped \cup {NoReq} :
       /\ treq' = [treq EXCEPT ![t] = q]
       /\ IF ~RequestIDFromContext(q).ok
            THEN /\ terr' = [terr EXCEPT ![t] = ErrNoConnectionBound]
                 /\ tpc' = [tpc EXCEPT ![t] = "returned"]
            ELSE /\ tpc' = [tpc EXCEPT ![t] = "lock"]
                 /\ UNCHANGED terr
  /\ UNCHANGED <<tconn, tstmt, reqVars, mgrVars, poolVars, timeVars, extVars>>

\* UserRepo.RegisterUser and FetchUserByName, the validation at the top: an
\* invalid argument is answered with ErrUserNameRequired; the query is not
\* built, ExtractConnection not called, nothing executed
RepoRejects(t) ==
  /\ tpc[t] = "idle"
  /\ \E a \in InvalidArgs : targ' = [targ EXCEPT ![t] = a]
  /\ terr' = [terr EXCEPT ![t] = ErrUserNameRequired]
  /\ tpc' = [tpc EXCEPT ![t] = "finished"]
  /\ UNCHANGED <<treq, tconn, tstmt, reqVars, mgrVars, poolVars, timeVars,
                 extVars>>

(* ------------------------------------- statements on the pool handle *)

\* BlogRepo.UpdateBlog and FindBlogByID, r.db.ExecContext / r.db.GetContext:
\* database/sql takes a connection of the pool that is not in use, runs the
\* statement in the session of that connection and puts it back. BlogRepo is
\* given the same *sqlx.DB as the tenant binding (main.go) and its routes
\* are mounted outside the tenant group.
BlogExec ==
  /\ \E p \in PoolIdle :
       blogExec' = [schema |-> schema[p], phys |-> p]
  /\ UNCHANGED <<coreVars, exceptShared>>

(* ------------------------------------------------------ Server.Start *)

\* NewServer with or without WithShutdownGrace: a zero grace is replaced by
\* the default.
NewServer ==
  /\ srv = "new"
  /\ \E g \in Times :
       grace' = IF g = 0 THEN DefaultShutdownGrace ELSE g
  /\ srv' = "built"
  /\ UNCHANGED <<inflight, sdCtx, sdStart, sdEnd, sdErr, started, coreVars,
                 exceptSrv>>

\* Server.Start up to hs.ListenAndServe(): the signal context is made, the
\* shutdown goroutine waits on it, the listener is open.
StartServing ==
  /\ srv = "built"
  /\ srv' = "serving"
  /\ started' = "running"
  /\ UNCHANGED <<grace, inflight, sdCtx, sdStart, sdEnd, sdErr, coreVars,
                 exceptSrv>>

\* the http.Server accepts a request while its listener is open
RequestBegins ==
  /\ srv \in {"serving", "signalled"}
  /\ inflight < MaxReqs
  /\ inflight' = inflight + 1
  /\ UNCHANGED <<grace, srv, sdCtx, sdStart, sdEnd, sdErr, started, coreVars,
                 exceptSrv>>

\* a request in flight is answered, as long as the process runs (main
\* returns when Start has returned)
RequestEnds ==
  /\ inflight > 0
  /\ started = "running"
  /\ inflight' = inflight - 1
  /\ UNCHANGED <<grace, srv, sdCtx, sdStart, sdEnd, sdErr, started, coreVars,
                 exceptSrv>>

\* os.Interrupt or SIGTERM: the context of signal.NotifyContext is done
Signal ==
  /\ srv = "serving"
  /\ srv' = "signalled"
  /\ UNCHANGED <<grace, inflight, sdCtx, sdStart, sdEnd, sdErr, started,
                 coreVars, exceptSrv>>

\* a context is done when its parent is done or its deadline has come
CtxDone(c, t) == c.parentDone \/ Expired(c.deadline, t)
CtxErr(c, t) == IF c.parentDone THEN ErrCanceled ELSE ErrDeadlineExceeded

\* the shutdown goroutine after <-ctx.Done(): the context for hs.Shutdown
\* is derived with the grace from the signal context, which is done, and
\* hs.Shutdown is called: it closes the listener.
ShutdownCall ==
  /\ srv = "signalled"
  /\ sdCtx' = [parentDone |-> TRUE,
               deadline |-> WithTimeout(NoDeadline, grace)]
  /\ sdStart' = now
  /\ srv' = "shutdown"
  /\ UNCHANGED <<grace, inflight, sdEnd, sdErr, started, coreVars, exceptSrv>>

\* http.Server.Shutdown, one round of its loop: it returns nil when no
\* request is in flight, the error of its context when that is done, and
\* polls again otherwise.
ShutdownPoll ==
  /\ srv = "shutdown"
  /\ IF inflight = 0
       THEN /\ srv' = "stopped"
            /\ sdEnd' = now
            /\ sdErr' = NoErr
       ELSE IF CtxDone(sdCtx, now)
         THEN /\ srv' = "stopped"
              /\ sdEnd' = now
              /\ sdErr' = CtxErr(sdCtx, now)
         ELSE UNCHANGED <<srv, sdEnd, sdErr>>
  /\ UNCHANGED <<grace, inflight, sdCtx, sdStart, started, coreVars,
                 exceptSrv>>

\* hs.ListenAndServe returns http.ErrServerClosed as soon as Shutdown was
\* called, and Start returns nil.
StartReturns ==
  /\ srv \in {"shutdown", "stopped"}
  /\ started = "running"
  /\ started' = "returned"
  /\ UNCHANGED <<grace, srv, inflight, sdCtx, sdStart, sdEnd, sdErr, coreVars,
                 exceptSrv>>

\* a second passes for the server; the timer of the shutdown context fires
\* at its deadline
ServerTick ==
  /\ now < MaxClock
  /\ srv \notin {"new", "stopped"}
  /\ srv = "shutdown" => ~Expired(sdCtx.deadline, now)
  /\ now' = now + 1
  /\ UNCHANGED <<reqVars, mgrVars, poolVars, taskVars, reqDeadline, exDeadline,
                 switchStart, switchEnd, extVars>>

(* ------------------------------------------------------- specification *)
Next ==
  \/ \E r \in Reqs : InjectTenantFromHeader(r)
  \/ \E r \in Reqs : ServeWithoutInject(r)
  \/ \E r \in Reqs : MwGetTenant(r)
  \/ \E r \in Reqs : MwAcquire(r)
  \/ \E r \in Reqs : MwAcquireFail(r)
  \/ \E r \in Reqs : MwSwitch(r)
  \/ \E r \in Reqs : MwSwitchFail(r)
  \/ \E r \in Reqs : MwBindLock(r)
  \/ \E r \in Reqs : MwBind(r)
  \/ \E r \in Reqs : HandlerReturn(r)
  \/ \E r \in Reqs : HandlerPanic(r)
  \/ \E r \in Reqs : MwUnbindLock(r)
  \/ \E r \in Reqs : MwUnbind(r)
  \/ \E r \in Reqs : MwClose(r)
  \/ \E t \in Tasks : ExtractStart(t)
  \/ \E t \in Tasks : ExtractLock(t)
  \/ \E t \in Tasks : ExtractLookup(t)
  \/ \E t \in Tasks : RepoExec(t)
  \/ \E t \in Tasks : RepoDone(t)

Spec == Init /\ [][Next]_vars

\* the steps of request r inside Middleware
MwStep(r) ==
  \/ MwGetTenant(r)
  \/ MwAcquire(r) \/ MwAcquireFail(r)
  \/ MwSwitch(r) \/ MwSwitchFail(r)
  \/ MwBindLock(r) \/ MwBind(r)
  \/ HandlerReturn(r) \/ HandlerPanic(r)
  \/ MwUnbindLock(r) \/ MwUnbind(r)
  \/ MwClose(r)

\* the steps of ExtractConnection once it is called
ExtractStep(t) == ExtractLock(t) \/ ExtractLookup(t)

\* Fair scheduling. A goroutine that is not blocked takes its next step:
\* Connx, ExecContext, the downstream handler and Close come back. A
\* goroutine blocked in h.mux.Lock() gets the mutex when it is released again
\* and again (sync.Mutex hands the lock to a starving waiter), hence strong
\* fairness; for the steps that nothing can disable it is the same as weak
\* fairness. Arrivals and new repository calls are not forced.
Fairness ==
  /\ \A r \in Reqs : SF_vars(MwStep(r))
  /\ \A t \in Tasks : SF_vars(ExtractStep(t))

\* The handler chain and ExtractConnection under fair scheduling: requests
\* with a header, a downstream handler that returns, and repository tasks
\* that each call ExtractConnection once.
NextFair ==
  \/ \E r \in Reqs : InjectTenantFromHeader(r)
  \/ \E r \in Reqs : MwGetTenant(r)
  \/ \E r \in Reqs : MwAcquire(r)
  \/ \E r \in Reqs : MwAcquireFail(r)
  \/ \E r \in Reqs : MwSwitch(r)
  \/ \E r \in Reqs : MwSwitchFail(r)
  \/ \E r \in Reqs : MwBindLock(r)
  \/ \E r \in Reqs : MwBind(r)
  \/ \E r \in Reqs : HandlerReturn(r)
  \/ \E r \in Reqs : MwUnbindLock(r)
  \/ \E r \in Reqs : MwUnbind(r)
  \/ \E r \in Reqs : MwClose(r)
  \/ \E t \in Tasks : ExtractStart(t)
  \/ \E t \in Tasks : ExtractLock(t)
  \/ \E t \in Tasks : ExtractLookup(t)

SpecFair == Init /\ [][NextFair]_vars /\ Fairness

\* The handler chain with the clock: the switch is a call and a return, and
\* the clock ticks. Repository calls are left out.
NextTimed ==
  \/ \E r \in Reqs : InjectTenantFromHeader(r)
  \/ \E r \in Reqs : MwGetTenant(r)
  \/ \E r \in Reqs : MwAcquire(r)
  \/ \E r \in Reqs : MwAcquireFail(r)
  \/ \E r \in Reqs : MwSwitchCall(r)
  \/ \E r \in Reqs : MwSwitchDone(r)
  \/ \E r \in Reqs : MwSwitchRejected(r)
  \/ \E r \in Reqs : MwSwitchExpired(r)
  \/ \E r \in Reqs : MwBindLock(r)
  \/ \E r \in Reqs : MwBind(r)
  \/ \E r \in Reqs : HandlerReturn(r)
  \/ \E r \in Reqs : MwUnbindLock(r)
  \/ \E r \in Reqs : MwUnbind(r)
  \/ \E r \in Reqs : MwClose(r)
  \/ Tick

SpecTimed == Init /\ [][NextTimed]_vars

\* The handler chain next to the routes that use the pool handle itself.
NextShared ==
  \/ \E r \in Reqs : InjectTenantFromHeader(r)
  \/ \E r \in Reqs : ServeWithoutInject(r)
  \/ \E r \in Reqs : MwGetTenant(r)
  \/ \E r \in Reqs : MwAcquire(r)
  \/ \E r \in Reqs : MwAcquireFail(r)
  \/ \E r \in Reqs : MwSwitch(r)
  \/ \E r \in Reqs : MwSwitchFail(r)
  \/ \E r \in Reqs : MwBindLock(r)
  \/ \E r \in Reqs : MwBind(r)
  \/ \E r \in Reqs : HandlerReturn(r)
  \/ \E r \in Reqs : HandlerPanic(r)
  \/ \E r \in Reqs : MwUnbindLock(r)
  \/ \E r \in Reqs : MwUnbind(r)
  \/ \E r \in Reqs : MwClose(r)
  \/ BlogExec

SpecShared == Init /\ [][NextShared]_vars

\* The web server from NewServer to the end of its shutdown.
NextServer ==
  \/ NewServer
  \/ StartServing
  \/ RequestBegins
  \/ RequestEnds
  \/ Signal
  \/ ShutdownCall
  \/ ShutdownPoll
  \/ StartReturns
  \/ ServerTick

SpecServer == Init /\ [][NextServer]_vars

(* ------------------------------------------------------------- claims *)

\* the call of task t has come back from ExtractConnection
Returned(t) == tpc[t] \in {"returned", "finished"}

\* C1: registry isolation. A call of ExtractConnection made with the context
\* of request R1 never returns the connection that was acquired for another
\* request R2, whatever the interleaving of the two requests.
C1_RegistryIsolation ==
  \A t \in Tasks : \A q \in Reqs :
    (Returned(t) /\ treq[t] # NoReq /\ q # treq[t] /\ conn[q] # NoConn)
      => /\ tconn[t] # conn[q]
         /\ tconn[t].owner # q

\* two requests are bound at the same time and a call in the scope of one of
\* them got a connection
C1_Witness ==
  \E t \in Tasks : \E q \in Reqs :
    /\ tpc[t] = "returned" /\ terr[t] = NoErr /\ treq[t] # NoReq
    /\ q # treq[t]
    /\ pc[q] = "handler" /\ pc[treq[t]] = "handler"
    /\ tconn[t] = conn[treq[t]]

\* C2: a connection that was acquired is closed exactly once on every exit
\* path of Middleware: never more closes than acquisitions, at most one
\* acquisition, and when Middleware has returned as many closes as
\* acquisitions, the connection being back in the pool.
C2_ReleasedExactlyOnce ==
  \A r \in Reqs :
    /\ acquired[r] <= 1
    /\ closes[r] <= acquired[r]
    /\ pc[r] = "done" => closes[r] = acquired[r]
    /\ (pc[r] = "done" /\ acquired[r] = 1) =>
         \/ ~leased[conn[r].phys]
         \/ \E q \in Reqs : q # r /\ closes[q] = 0 /\ conn[q].phys = conn[r].phys

\* one request ended by a panic of the handler and another by a failed
\* switch, both with their connection closed once
C2_Witness ==
  \E r, q \in Reqs :
    /\ pc[r] = "done" /\ panicked[r] /\ closes[r] = 1
    /\ pc[q] = "done" /\ resp[q].error = "failed to change the tenant"
    /\ closes[q] = 1

\* C3: once Middleware has returned for a request, the registry holds no
\* entry under that request's ID and no entry of that request's connection,
\* whether the handler returned or panicked.
C3_TokenAbsentAfterReturn ==
  \A r \in Reqs :
    pc[r] = "done" =>
      /\ reqID[r] \notin DOMAIN conns
      /\ \A k \in DOMAIN conns : conns[k].owner # r

\* a request that was bound and whose handler panicked has returned
C3_Witness ==
  \E r \in Reqs : pc[r] = "done" /\ reqID[r] # NoID /\ panicked[r]

\* C4: while the handler of a request runs, every ExtractConnection call that
\* was made with the request's context has succeeded and returned the
\* connection Middleware acquired and switched for the request, and the
\* statement issued on it was executed.
C4_LookupInScopeSucceeds ==
  \A t \in Tasks :
    (Returned(t) /\ treq[t] # NoReq /\ pc[treq[t]] = "handler") =>
      /\ terr[t] = NoErr
      /\ tconn[t] = conn[treq[t]]
      /\ tconn[t] # NoConn
      /\ schema[tconn[t].phys] = tenant[treq[t]]
      /\ tpc[t] = "finished" => tstmt[t] # NoExec

\* two calls made at the same time in the scope of one running handler have
\* both returned
C4_Witness ==
  \E t, u \in Tasks :
    /\ t # u /\ treq[t] # NoReq /\ treq[u] = treq[t]
    /\ tpc[t] = "returned" /\ tpc[u] = "returned"
    /\ pc[treq[t]] = "handler" /\ terr[t] = NoErr /\ terr[u] = NoErr

\* C5: every statement a repository call executed through the connection it
\* got from ExtractConnection ran in a session whose schema is the tenant of
\* the request whose context the call was given.
C5_StatementsUnderOwnTenant ==
  \A t \in Tasks :
    tstmt[t] # NoExec =>
      /\ treq[t] # NoReq
      /\ tstmt[t].schema = tenant[treq[t]]
      /\ tstmt[t].schema = HeaderGet(header[treq[t]])

\* a statement was executed for one request while a request of another
\* tenant was bound as well
C5_Witness ==
  \E t \in Tasks : \E q \in Reqs :
    /\ tstmt[t] # NoExec /\ q # treq[t]
    /\ pc[q] = "handler" /\ pc[treq[t]] = "handler"
    /\ tenant[q] # tenant[treq[t]]

\* C6: release ordering. No registry entry maps to a connection that was
\* closed or is back in the pool; the ID is deleted before the connection is
\* closed, also when the handler panicked.
C6_UnregisterBeforeRelease ==
  /\ \A k \in DOMAIN conns : ~Done(conns[k]) /\ leased[conns[k].phys]
  /\ \A r \in Reqs : closes[r] > 0 => reqID[r] \notin DOMAIN conns

\* after a panic the ID is deleted and the connection is not yet closed
C6_Witness ==
  \E r \in Reqs :
    /\ panicked[r] /\ pc[r] = "unwind" /\ reqID[r] # NoID
    /\ reqID[r] \notin DOMAIN conns /\ closes[r] = 0

\* C7: a lookup made with a context that carries a request ID which is not
\* in the registry at the time of the lookup returns ErrNoConnectionBound and
\* no connection.
C7_NoConnectionBound ==
  [][\A t \in Tasks :
       (/\ tpc[t] = "locked" /\ tpc'[t] = "returned"
        /\ RequestIDFromContext(treq[t]).id \notin DOMAIN conns)
         => (terr'[t] = ErrNoConnectionBound /\ tconn'[t] = NoConn)]_vars

\* a call that kept the context of a finished request got the error
C7_Witness ==
  \E t \in Tasks :
    /\ tpc[t] = "returned" /\ treq[t] # NoReq /\ pc[treq[t]] = "done"
    /\ terr[t] = ErrNoConnectionBound /\ tconn[t] = NoConn

\* C8: a lookup made with a context that carries no request ID fails with an
\* error that is not ErrNoConnectionBound.
C8_NoRequestBoundDistinct ==
  \A t \in Tasks :
    (Returned(t) /\ treq[t] = NoReq) =>
      (terr[t] # NoErr /\ terr[t] # ErrNoConnectionBound)

\* the tenant-missing answer of Middleware
TenantMissing == respondError(StatusBadRequest, "no tenant found")

\* C9: a request whose tenant-id header is absent or empty is answered with
\* the tenant-missing error without any call of the pool and without any
\* switch statement.
C9_EmptyTenantShortCircuits ==
  \A r \in Reqs :
    (viaInject[r] /\ HeaderGet(header[r]) = ""
       /\ pc[r] \notin {"start", "mw", "acquire"}) =>
      /\ attempts[r] = 0 /\ acquired[r] = 0
      /\ switchStmt[r] = NoStmt
      /\ pc[r] = "done" /\ resp[r] = TenantMissing

\* C10: for a request whose tenant-id header is a non-empty string t the
\* tenant Middleware resolves is t, the switch statement it sends is
\* "use t", and the connection it binds is in schema t.
C10_HeaderTenantIsSwitchedTo ==
  \A r \in Reqs :
    (viaInject[r] /\ header[r] # Absent /\ header[r] # "") =>
      /\ pc[r] \notin {"start", "mw"} =>
            (tenant[r] = header[r] /\ resp[r] # TenantMissing)
      /\ switchStmt[r] # NoStmt => switchStmt[r] = <<"use", header[r]>>
      /\ pc[r] \in {"bind", "bind_locked", "handler"} =>
            schema[conn[r].phys] = header[r]

\* a request with tenant-id: acme runs its handler on a connection in acme
C10_Witness ==
  \E r \in Reqs :
    /\ viaInject[r] /\ header[r] = "acme" /\ pc[r] = "handler"
    /\ switchStmt[r] = <<"use", "acme">>
    /\ schema[conn[r].phys] = "acme"

\* the switch-failed answer of Middleware
TenantSwitchFailed ==
  respondError(StatusInternalServerError, "failed to change the tenant")

\* C11: a switch statement that does not come back is given up at most
\* SwitchTimeoutSeconds after it was sent, also when the request context has
\* no deadline or a later one; the request is then answered with the
\* switch-failed error, no request ID is minted, and the connection is given
\* back once.
C11_SwitchBoundedByTimeout ==
  \A r \in Reqs :
    /\ pc[r] = "switch_wait" =>
         now - switchStart[r] <= SwitchTimeoutSeconds
    /\ switchEnd[r] # NoTime =>
         switchEnd[r] - switchStart[r] <= SwitchTimeoutSeconds
    /\ (switchEnd[r] # NoTime /\ Expired(exDeadline[r], switchEnd[r])) =>
         /\ pc[r] \in {"unwind", "done"}
         /\ resp[r] = TenantSwitchFailed
         /\ reqID[r] = NoID /\ invoked[r] = 0
         /\ pc[r] = "done" => (closes[r] = 1 /\ acquired[r] = 1)

\* a statement sent under a request context without deadline, and one sent
\* under a deadline later than the bound, both waited the full bound, were
\* given up, and their requests are over with the connection given back
C11_Witness ==
  /\ \E r \in Reqs :
       /\ reqDeadline[r] = NoDeadline /\ pc[r] = "done"
       /\ switchEnd[r] - switchStart[r] = SwitchTimeoutSeconds
       /\ resp[r] = TenantSwitchFailed /\ closes[r] = 1
  /\ \E q \in Reqs :
       /\ reqDeadline[q] # NoDeadline /\ pc[q] = "done"
       /\ reqDeadline[q] > switchStart[q] + SwitchTimeoutSeconds
       /\ switchEnd[q] - switchStart[q] = SwitchTimeoutSeconds
       /\ resp[q] = TenantSwitchFailed /\ closes[q] = 1

\* request r has an entry in the registry
Registered(r) == \E k \in DOMAIN conns : conns[k].owner = r

\* C12: a request whose switch statement failed, for whatever reason, is
\* answered with the switch-failed error, gets no request ID and no registry
\* entry, never reaches the downstream handler, and its connection is closed
\* exactly once before Middleware returns.
C12_SwitchFailureReleasesOnce ==
  \A r \in Reqs :
    resp[r] = TenantSwitchFailed =>
      /\ pc[r] \in {"unwind", "done"}
      /\ acquired[r] = 1 /\ switchStmt[r] = UseStmt(tenant[r])
      /\ reqID[r] = NoID /\ ~Registered(r) /\ invoked[r] = 0
      /\ closes[r] <= 1
      /\ pc[r] = "done" <=> closes[r] = 1

\* the switch to a well-formed tenant failed and the request is over with
\* its one Close done
C12_Witness ==
  \E r \in Reqs :
    /\ resp[r] = TenantSwitchFailed /\ tenant[r] \in Tenants
    /\ pc[r] = "done" /\ closes[r] = 1 /\ reqID[r] = NoID

\* the acquire-failed answer of Middleware
AcquireFailed ==
  respondError(StatusInternalServerError, "failed to open new connection")

\* C13: when Connx fails the request is answered with the acquire-failed
\* error and is over: it made that one attempt only, sent no switch
\* statement, closed nothing, has no request ID, and the step left the
\* registry, the mutex and the pool as they were.
C13_AcquireFailureStops ==
  /\ [](\A r \in Reqs :
          resp[r] = AcquireFailed =>
            /\ pc[r] = "done"
            /\ attempts[r] = 1 /\ acquired[r] = 0 /\ conn[r] = NoConn
            /\ switchStmt[r] = NoStmt /\ closes[r] = 0 /\ defers[r] = <<>>
            /\ reqID[r] = NoID /\ ~Registered(r) /\ invoked[r] = 0)
  /\ [][\A r \in Reqs :
          (resp[r] # AcquireFailed /\ resp'[r] = AcquireFailed) =>
            /\ pc[r] = "acquire"
            /\ <<mgrVars, poolVars>>' = <<mgrVars, poolVars>>]_vars

\* Connx failed for a request while the registry holds the entry of another
C13_Witness ==
  \E r, q \in Reqs :
    /\ resp[r] = AcquireFailed /\ pc[r] = "done" /\ attempts[r] = 1
    /\ q # r /\ Registered(q)

\* the request ID of r is a key of the registry
TokenPresent(r) == reqID[r] # NoID /\ reqID[r] \in DOMAIN conns

\* the connection of r was acquired and not yet given back
Held(r) == acquired[r] = 1 /\ closes[r] = 0

\* C14 (as stated): in every state the request ID of a request is in the
\* registry if and only if its connection was acquired and not yet released.
C14_TokenPresentIffHeld ==
  \A r \in Reqs : TokenPresent(r) <=> Held(r)

\* the deferred delete of r is the next deferred call to run
UnbindPending(r) ==
  pc[r] = "unwind" /\ defers[r] # <<>> /\ Head(defers[r]) = "unbind"

\* C14 (amended): a request ID in the registry implies that the connection of
\* its request was acquired and not yet released; it is in the registry
\* exactly from the insert of bind to the deferred delete, so a request that
\* holds its connection before bind or after unbind has no entry.
C14_TokenPresentOnlyWhileHeld ==
  \A r \in Reqs :
    /\ TokenPresent(r) => Held(r)
    /\ TokenPresent(r) <=>
         (pc[r] \in {"handler", "unbind_locked"} \/ UnbindPending(r))

\* one request is bound and holds its connection; another holds its
\* connection after its entry was deleted and before the Close
C14_Witness ==
  \E r, q \in Reqs :
    /\ TokenPresent(r) /\ Held(r) /\ pc[r] = "handler"
    /\ Held(q) /\ ~TokenPresent(q) /\ reqID[q] # NoID /\ pc[q] = "unwind"

\* C15: the registry is one-to-one. Every request ID in it maps to the
\* connection of the one request it was minted for, and two different request
\* IDs never map to the same handle nor to the same physical connection.
C15_RegistryOneToOne ==
  /\ \A k \in DOMAIN conns :
       /\ conns[k] # NoConn
       /\ \E r \in Reqs : reqID[r] = k /\ conns[k] = conn[r]
       /\ \A r, q \in Reqs : (reqID[r] = k /\ reqID[q] = k) => r = q
  /\ \A k1, k2 \in DOMAIN conns :
       k1 # k2 => /\ conns[k1] # conns[k2]
                  /\ conns[k1].phys # conns[k2].phys

\* the registry holds two entries at once
C15_Witness ==
  \E k1, k2 \in DOMAIN conns :
    k1 # k2 /\ conns[k1].phys # conns[k2].phys

\* C16: the downstream handler is called at most once per request; it was
\* called only if the tenant was found, the connection acquired and the
\* switch done; while it runs the registry holds the entry of the request
\* under the request ID its context carries; a request that was answered
\* with an error never reached it, and one that ended without error did.
C16_HandlerInvokedOnceAfterBind ==
  \A r \in Reqs :
    /\ invoked[r] <= 1
    /\ invoked[r] = 1 =>
         /\ defaultGetTenant(ctxTenant[r]).ok
         /\ acquired[r] = 1 /\ attempts[r] = 1
         /\ switchStmt[r] = UseStmt(tenant[r])
         /\ resp[r] = NoResp /\ reqID[r] # NoID
    /\ pc[r] = "handler" =>
         /\ invoked[r] = 1
         /\ RequestIDFromContext(r) = [id |-> reqID[r], ok |-> TRUE]
         /\ TokenPresent(r) /\ conns[reqID[r]] = conn[r]
    /\ resp[r] # NoResp => invoked[r] = 0
    /\ (pc[r] = "done" /\ resp[r] = NoResp) => invoked[r] = 1

\* one request is over after its handler ran once, another was refused
\* without its handler being called
C16_Witness ==
  \E r, q \in Reqs :
    /\ pc[r] = "done" /\ invoked[r] = 1 /\ resp[r] = NoResp
    /\ pc[q] = "done" /\ invoked[q] = 0 /\ resp[q] = TenantSwitchFailed

\* C17: when getTenant finds no tenant in the request context the request is
\* answered with the tenant-missing error and is over: no Connx call, no
\* statement, no Close, no request ID, and the step left the registry, its
\* mutex and the pool as they were. Every request whose context has no
\* tenant ends so.
C17_TenantMissingStops ==
  /\ [](\A r \in Reqs :
          /\ resp[r] = TenantMissing =>
               /\ pc[r] = "done" /\ ~defaultGetTenant(ctxTenant[r]).ok
               /\ attempts[r] = 0 /\ acquired[r] = 0 /\ conn[r] = NoConn
               /\ switchStmt[r] = NoStmt /\ closes[r] = 0 /\ defers[r] = <<>>
               /\ reqID[r] = NoID /\ ~Registered(r) /\ invoked[r] = 0
          /\ (pc[r] \notin {"start", "mw"} /\ ctxTenant[r] = NoValue) =>
               resp[r] = TenantMissing)
  /\ [][\A r \in Reqs :
          (resp[r] # TenantMissing /\ resp'[r] = TenantMissing) =>
            /\ pc[r] = "mw"
            /\ <<mgrVars, poolVars>>' = <<mgrVars, poolVars>>]_vars

\* a request without tenant in its context was refused while the registry
\* holds the entry of another
C17_Witness ==
  \E r, q \in Reqs :
    /\ resp[r] = TenantMissing /\ pc[r] = "done" /\ ~viaInject[r]
    /\ q # r /\ Registered(q)

\* C18: every step that reads or writes the registry is taken by the holder
\* of the mutex, and the holder of the mutex is at a map operation only: a
\* step that calls Connx, executes a statement or closes a connection is
\* never taken by the holder.
C18_RegistryUnderMutexNoIO ==
  /\ [](/\ \A r \in Reqs :
             mux = <<"req", r>> => pc[r] \in {"bind_locked", "unbind_locked"}
        /\ \A t \in Tasks : mux = <<"task", t>> => tpc[t] = "locked")
  /\ [][/\ conns' # conns =>
             \E r \in Reqs : mux = <<"req", r>> /\ pc'[r] # pc[r]
        /\ \A r \in Reqs :
             (pc[r] \in {"bind_locked", "unbind_locked"} /\ pc'[r] # pc[r])
               => mux = <<"req", r>>
        /\ \A t \in Tasks :
             (tpc[t] = "locked" /\ tpc'[t] # tpc[t]) => mux = <<"task", t>>
        /\ \A r \in Reqs :
             (attempts'[r] # attempts[r] \/ switchStmt'[r] # switchStmt[r]
                \/ closes'[r] # closes[r]) => mux # <<"req", r>>
        /\ \A t \in Tasks :
             tstmt'[t] # tstmt[t] => mux # <<"task", t>>]_vars

\* a request holds the mutex for its insert while a repository call waits
\* for it and another request is about to close its connection
C18_Witness ==
  \E r, q \in Reqs : \E t \in Tasks :
    /\ mux = <<"req", r>> /\ pc[r] = "bind_locked"
    /\ tpc[t] = "lock"
    /\ q # r /\ pc[q] = "unwind" /\ Head(defers[q]) = "close"

\* C19: the registry changes only in the bind step of a request, which adds
\* one entry under the request ID minted in that step, a key the registry
\* did not have, and in its unbind step, which removes the entry under that
\* same request ID; both leave every other entry as it was. No step of a
\* repository call (ExtractConnection included) changes the registry.
C19_RegistryFrame ==
  [][/\ conns' # conns =>
          \E r \in Reqs :
            \/ /\ pc[r] = "bind_locked" /\ pc'[r] = "handler"
               /\ reqID[r] = NoID /\ reqID'[r] # NoID
               /\ reqID'[r] \notin DOMAIN conns
               /\ DOMAIN conns' = DOMAIN conns \cup {reqID'[r]}
               /\ conns'[reqID'[r]] = conn[r]
               /\ \A k \in DOMAIN conns : conns'[k] = conns[k]
            \/ /\ pc[r] = "unbind_locked" /\ pc'[r] # pc[r]
               /\ reqID'[r] = reqID[r]
               /\ DOMAIN conns' = DOMAIN conns \ {reqID[r]}
               /\ \A k \in DOMAIN conns' : conns'[k] = conns[k]
     /\ (\E t \in Tasks : tpc'[t] # tpc[t]) => conns' = conns
     /\ \A q \in Reqs :
          (pc'[q] = pc[q] /\ TokenPresent(q)) =>
            /\ reqID[q] \in DOMAIN conns'
            /\ conns'[reqID[q]] = conns[reqID[q]]]_vars

\* a request was bound after another and unbound before it: the entry of
\* the other is still there, and a lookup under it returned its connection
C19_Witness ==
  \E r, q \in Reqs : \E t \in Tasks :
    /\ q # r /\ pc[r] = "done" /\ reqID[r] > reqID[q]
    /\ TokenPresent(q) /\ conns[reqID[q]] = conn[q]
    /\ treq[t] = q /\ tpc[t] = "returned" /\ tconn[t] = conn[q]

\* C20: a request ID is minted in the bind step of its request and nowhere
\* else, once per request; it differs from every request ID minted before,
\* so the insert adds a key the registry did not have; request IDs of
\* different requests are never equal, and the unbind of one request leaves
\* the keys of the others in the registry.
C20_TokensUniqueMintedAtBind ==
  /\ [](\A r, q \in Reqs :
          (r # q /\ reqID[r] # NoID /\ reqID[q] # NoID) => reqID[r] # reqID[q])
  /\ [][\A r \in Reqs :
          /\ reqID'[r] # reqID[r] =>
               /\ pc[r] = "bind_locked" /\ reqID[r] = NoID
               /\ reqID'[r] \notin DOMAIN conns
               /\ \A q \in Reqs : reqID[q] # reqID'[r]
          /\ (pc[r] = "unbind_locked" /\ pc'[r] # pc[r]) =>
               \A q \in Reqs :
                 (q # r /\ TokenPresent(q)) => reqID[q] \in DOMAIN conns']_vars

\* two requests were given request IDs; the one bound first is over and the
\* entry of the other is in the registry
C20_Witness ==
  \E r, q \in Reqs :
    /\ reqID[r] # NoID /\ reqID[q] # NoID /\ reqID[r] < reqID[q]
    /\ pc[r] = "done" /\ ~TokenPresent(r)
    /\ TokenPresent(q) /\ pc[q] = "handler"

\* C21: the physical connection of a request whose switch statement failed is
\* not handed out by the pool again: no request that holds a connection
\* after that request is over holds the same physical connection.
C21_FailedSwitchConnDiscarded ==
  \A r, q \in Reqs :
    (resp[r] = TenantSwitchFailed /\ pc[r] = "done" /\ q # r /\ Held(q))
      => conn[q].phys # conn[r].phys

\* C22: a statement sent on the pool handle itself never runs on a
\* connection whose session was left in the schema of a tenant, and a
\* connection that Middleware gave back is in the schema of the DSN again.
C22_PoolHandleOffTenantSchema ==
  /\ blogExec # NoExec => blogExec.schema = DefaultSchema
  /\ \A p \in PhysConns : ~leased[p] => schema[p] = DefaultSchema

\* C23: a repository method whose ExtractConnection failed returns that very
\* error and executes no statement: it has no connection, and its step from
\* the failed lookup to its return changes nothing but its own position.
C23_ExtractErrorSurfaced ==
  /\ [](\A t \in Tasks :
          (Returned(t) /\ terr[t] = ErrNoConnectionBound) =>
            (tconn[t] = NoConn /\ tstmt[t] = NoExec))
  /\ [][\A t \in Tasks :
          (tpc[t] = "returned" /\ terr[t] # NoErr /\ tpc'[t] # tpc[t]) =>
            /\ tpc'[t] = "finished"
            /\ terr'[t] = terr[t] /\ tstmt'[t] = NoExec /\ tconn'[t] = NoConn
            /\ <<reqVars, mgrVars, poolVars, blogExec>>'
                 = <<reqVars, mgrVars, poolVars, blogExec>>]_vars

\* a method called with the context of a request that is over came back
\* with the lookup error, and one called without request context did so too
C23_Witness ==
  \E t, u \in Tasks :
    /\ tpc[t] = "finished" /\ terr[t] = ErrNoConnectionBound
    /\ treq[t] # NoReq /\ pc[treq[t]] = "done" /\ tstmt[t] = NoExec
    /\ tpc[u] = "finished" /\ terr[u] = ErrNoConnectionBound
    /\ treq[u] = NoReq /\ tstmt[u] = NoExec

\* the tenants an allow-list would hold: every tenant name of the model
KnownTenants == Tenants

\* C24: the switch statement is sent only with a tenant that is on the list
\* of known tenants.
C24_SwitchOnlyForKnownTenants ==
  \A r \in Reqs :
    switchStmt[r] # NoStmt =>
      \E t \in KnownTenants : switchStmt[r] = UseStmt(t)

\* C25: under fair scheduling every request that entered Middleware returns,
\* every call of ExtractConnection that went for the mutex returns, and the
\* mutex, once taken, is released.
C25_EveryCallReturns ==
  /\ \A r \in Reqs : (pc[r] = "mw") ~> (pc[r] = "done")
  /\ \A t \in Tasks : (tpc[t] = "lock") ~> (tpc[t] = "returned")
  /\ (mux # Free) ~> (mux = Free)

\* both requests and a repository call want the mutex at once: one request
\* holds it for its insert, the other waits to delete, the call waits to read
C25_Witness ==
  \E r, q \in Reqs : \E t \in Tasks :
    /\ mux = <<"req", r>> /\ pc[r] = "bind_locked"
    /\ q # r /\ UnbindPending(q)
    /\ tpc[t] = "lock" /\ treq[t] = q

\* C26: when the signal came while requests were in flight, hs.Shutdown is
\* given up (it returns an error) only once the grace period has passed
\* since it was called.
C26_ShutdownWaitsGrace ==
  (srv = "stopped" /\ sdErr # NoErr) => sdEnd - sdStart >= grace

-----------------------------------------------------------------------------
(* BlogRepo.CreateBlogs (src/repos/user_repo.go).  One call; the inputs are *)
(* the length of the list and the outcome of every database call.           *)

CreateOutcomes == {NoErr, "failed to build query: error", ErrExecContext}

\* lines 169-182: the length check comes before BeginTxx
CreateBlogsCall ==
  /\ cbPc = "idle"
  /\ \E n \in 0..MaxBlogs :
       /\ cbLen' = n
       /\ IF n < 1
            THEN cbErr' = ErrEmptyBlogs /\ cbPc' = "returned"
            ELSE cbErr' = cbErr /\ cbPc' = "begin"
  /\ UNCHANGED <<cbIdx, cbTried, txBegun, txCommits, txRollbacks, txState>>
  /\ UNCHANGED <<coreVars, exceptCb>>

\* lines 183-186: r.db.BeginTxx
CbBeginTxx ==
  /\ cbPc = "begin"
  /\ \E ok \in BOOLEAN :
       IF ok
         THEN /\ txBegun' = txBegun + 1
              /\ txState' = "open"
              /\ cbPc' = "loop"
              /\ cbErr' = cbErr
         ELSE /\ cbErr' = ErrBeginTxx
              /\ cbPc' = "returned"
              /\ UNCHANGED <<txBegun, txState>>
  /\ UNCHANGED <<cbLen, cbIdx, cbTried, txCommits, txRollbacks>>
  /\ UNCHANGED <<coreVars, exceptCb>>

CbCreateNoRollback ==
  /\ cbPc = "loop"
  /\ cbIdx < cbLen
  /\ \E e \in CreateOutcomes :
       /\ cbTried' = cbTried + 1
       /\ IF e = NoErr
            THEN /\ cbIdx' = cbIdx + 1
                 /\ UNCHANGED <<cbErr, cbPc>>
            ELSE /\ cbErr' = e
                 /\ cbPc' = "returned"
                 /\ cbIdx' = cbIdx
  /\ UNCHANGED <<cbLen, txBegun, txCommits, txRollbacks, txState>>
  /\ UNCHANGED <<coreVars, exceptCb>>

\* lines 187-196: one turn of the loop; r.create (149-167) fails when the
\* query cannot be built or ExecContext fails, then the transaction is
\* rolled back and the error returned
CbCreate ==
  /\ cbPc = "loop"
  /\ cbIdx < cbLen
  /\ \E e \in CreateOutcomes :
       /\ cbTried' = cbTried + 1
       /\ IF e = NoErr
            THEN /\ cbIdx' = cbIdx + 1
                 /\ UNCHANGED <<cbErr, cbPc, txRollbacks, txState>>
            ELSE /\ txRollbacks' = txRollbacks + 1
                 /\ txState' = "rolled back"
                 /\ cbErr' = e
                 /\ cbPc' = "returned"
                 /\ cbIdx' = cbIdx
  /\ UNCHANGED <<cbLen, txBegun, txCommits>>
  /\ UNCHANGED <<coreVars, exceptCb>>

\* lines 197-200: tx.Commit after the loop; a failed Commit ends the
\* transaction without its rows
CbCommit ==
  /\ cbPc = "loop"
  /\ cbIdx = cbLen
  /\ txCommits' = txCommits + 1
  /\ \E ok \in BOOLEAN :
       IF ok
         THEN txState' = "committed" /\ cbErr' = cbErr
         ELSE txState' = "rolled back" /\ cbErr' = ErrCommit
  /\ cbPc' = "returned"
  /\ UNCHANGED <<cbLen, cbIdx, cbTried, txBegun, txRollbacks>>
  /\ UNCHANGED <<coreVars, exceptCb>>

\* rows of this call that other transactions can see
CbVisibleRows == IF txState = "committed" THEN cbIdx ELSE 0

-----------------------------------------------------------------------------
(* Server.handleGetBlog (src/web/web.go) and BlogRepo.FindBlogByID.         *)

FindOutcomes ==
  { [blog |-> "b1", err |-> NoErr],
    [blog |-> NoBlog, err |-> ErrBlogNotFound],
    [blog |-> NoBlog, err |-> ErrGetContext] }

\* a JSON document written by json.Encoder.Encode
ErrorDoc(msg) == [kind |-> "errorResponse", value |-> msg]
BlogDoc(b) == IF b = NoBlog THEN [kind |-> "null", value |-> ""]
                            ELSE [kind |-> "Blog", value |-> b]

\* web.go 325-335: an empty blog_id is answered at once
GbCall ==
  /\ gbPc = "idle"
  /\ \E id \in BlogIDs :
       /\ gbID' = id
       /\ IF id = ""
            THEN /\ gbStatus' = StatusBadRequest
                 /\ gbBody' = Append(gbBody, ErrorDoc("empty blog_id"))
                 /\ gbPc' = "returned"
            ELSE /\ gbPc' = "find"
                 /\ UNCHANGED <<gbStatus, gbBody>>
  /\ UNCHANGED gbFind
  /\ UNCHANGED <<coreVars, exceptGb>>

\* user_repo.go 252-274: the blog, ErrBlogNotFound, or a wrapped error
FindBlogByID ==
  /\ gbPc = "find"
  /\ \E o \in FindOutcomes : gbFind' = o
  /\ gbPc' = "respond"
  /\ UNCHANGED <<gbID, gbStatus, gbBody>>
  /\ UNCHANGED <<coreVars, exceptGb>>

\* web.go 337-346: the not-found branch returns; the branch of any other
\* error writes its body and goes on to line 346, which encodes blog
GbRespond ==
  /\ gbPc = "respond"
  /\ IF gbFind.err = ErrBlogNotFound
       THEN /\ gbStatus' = StatusNotFound
            /\ gbBody' = Append(gbBody, ErrorDoc(gbFind.err))
       ELSE IF gbFind.err # NoErr
         THEN /\ gbStatus' = StatusInternalServerError
              /\ gbBody' = Append(Append(gbBody, ErrorDoc(gbFind.err)),
                                  BlogDoc(gbFind.blog))
         ELSE /\ gbStatus' = gbStatus
              /\ gbBody' = Append(gbBody, BlogDoc(gbFind.blog))
  /\ gbPc' = "returned"
  /\ UNCHANGED <<gbID, gbFind>>
  /\ UNCHANGED <<coreVars, exceptGb>>

NextBlog ==
  \/ CreateBlogsCall
  \/ CbBeginTxx
  \/ CbCreate
  \/ CbCommit
  \/ GbCall
  \/ FindBlogByID
  \/ GbRespond

SpecBlog == Init /\ [][NextBlog]_vars

\* C27: CreateBlogs is all-or-nothing.  An empty list is answered with
\* ErrEmptyBlogs and no transaction is begun; the transaction is committed
\* only when every blog of the list was inserted; after the first failing
\* insert no further insert is attempted, the transaction is rolled back
\* and the error returned; a transaction that was begun ends in exactly one
\* Commit or Rollback, and rows are visible only as the whole list.
C27_CreateBlogsAllOrNothing ==
  /\ (cbPc = "returned" /\ cbLen < 1) => (cbErr = ErrEmptyBlogs /\ txBegun = 0)
  /\ txCommits > 0 => (cbIdx = cbLen /\ cbTried = cbLen)
  /\ cbTried > cbIdx =>
       /\ cbTried = cbIdx + 1
       /\ txRollbacks = 1
       /\ txCommits = 0
       /\ cbPc = "returned"
       /\ cbErr \in CreateOutcomes \ {NoErr}
  /\ txCommits + txRollbacks <= txBegun
  /\ (cbPc = "returned" /\ txBegun > 0) => txCommits + txRollbacks = 1
  /\ CbVisibleRows \in {0, cbLen}
  /\ (cbPc = "returned" /\ cbErr = NoErr) => CbVisibleRows = cbLen
  /\ (cbPc = "returned" /\ cbErr # NoErr) => CbVisibleRows = 0

\* an insert failed after an earlier one succeeded, with blogs left over
C27_Witness ==
  /\ cbPc = "returned"
  /\ cbIdx > 0
  /\ cbTried = cbIdx + 1
  /\ cbTried < cbLen
  /\ txRollbacks = 1

\* C28: handleGetBlog writes exactly one JSON document whatever
\* FindBlogByID returned: the blog, or one error body with status 404 or
\* 500 and nothing after it.
C28_GetBlogOneDocument ==
  (gbPc = "returned" /\ gbID # "") =>
    /\ Len(gbBody) = 1
    /\ gbFind.err = NoErr =>
         (gbStatus = 0 /\ gbBody[1] = BlogDoc(gbFind.blog))
    /\ gbFind.err = ErrBlogNotFound =>
         (gbStatus = StatusNotFound /\ gbBody[1] = ErrorDoc(gbFind.err))
    /\ gbFind.err \notin {NoErr, ErrBlogNotFound} =>
         (gbStatus = StatusInternalServerError
            /\ gbBody[1] = ErrorDoc(gbFind.err))

-----------------------------------------------------------------------------
(* Repository calls with valid and invalid arguments.                       *)

NextRepo ==
  \/ \E r \in Reqs : InjectTenantFromHeader(r)
  \/ \E r \in Reqs : ServeWithoutInject(r)
  \/ \E r \in Reqs : MwGetTenant(r)
  \/ \E r \in Reqs : MwAcquire(r)
  \/ \E r \in Reqs : MwAcquireFail(r)
  \/ \E r \in Reqs : MwSwitch(r)
  \/ \E r \in Reqs : MwSwitchFail(r)
  \/ \E r \in Reqs : MwBindLock(r)
  \/ \E r \in Reqs : MwBind(r)
  \/ \E r \in Reqs : HandlerReturn(r)
  \/ \E r \in Reqs : HandlerPanic(r)
  \/ \E r \in Reqs : MwUnbindLock(r)
  \/ \E r \in Reqs : MwUnbind(r)
  \/ \E r \in Reqs : MwClose(r)
  \/ \E t \in Tasks : RepoRejects(t)
  \/ \E t \in Tasks : ExtractStart(t)
  \/ \E t \in Tasks : ExtractLock(t)
  \/ \E t \in Tasks : ExtractLookup(t)
  \/ \E t \in Tasks : RepoExec(t)
  \/ \E t \in Tasks : RepoDone(t)

SpecRepo == Init /\ [][NextRepo]_vars

\* C29: RegisterUser called with a nil user or an empty name, and
\* FetchUserByName called with an empty name, return ErrUserNameRequired
\* before ExtractConnection is called: the call carries no request to the
\* connection manager, never waits for or holds its mutex, receives no
\* connection and executes no statement; a call that reaches
\* ExtractConnection has a valid name.
C29_InvalidNameRejectedFirst ==
  \A t \in Tasks :
    /\ targ[t] \in InvalidArgs =>
         /\ tpc[t] = "finished"
         /\ terr[t] = ErrUserNameRequired
         /\ treq[t] = NoReq
         /\ tconn[t] = NoConn
         /\ tstmt[t] = NoExec
         /\ mux # <<"task", t>>
    /\ tpc[t] \in {"lock", "locked", "returned"} => targ[t] = UserName

\* a call was refused while a request that it could have used is bound
C29_Witness ==
  \E t \in Tasks : \E r \in Reqs :
    /\ targ[t] \in InvalidArgs
    /\ terr[t] = ErrUserNameRequired
    /\ pc[r] = "handler"
    /\ reqID[r] \in DOMAIN conns

-----------------------------------------------------------------------------
(* queryStore.parseWithCache and mapCache (src/unnamed/part_001).           *)

\* parser.ParseSQL: the statements of the query, or an error
ParseSQL(q) ==
  IF q = "selec" THEN [err |-> TRUE, stmts |-> <<>>]
  ELSE IF q = "select 1" THEN [err |-> FALSE, stmts |-> <<"select 1">>]
  ELSE IF q = "select 2; select 3"
    THEN [err |-> FALSE, stmts |-> <<"select 2", "select 3">>]
  ELSE [err |-> FALSE, stmts |-> <<>>]

\* lines 425-427: the empty query returns nil without a look at the cache
ParseCall(c) ==
  /\ cpc[c] = "idle"
  /\ \E q \in Queries :
       /\ cq' = [cq EXCEPT ![c] = q]
       /\ cpc' = [cpc EXCEPT ![c] = IF q = "" THEN "returned" ELSE "get"]
  /\ UNCHANGED <<dirty, cstmt, cret, parses>>
  /\ UNCHANGED <<coreVars, exceptCache>>

\* line 428 and mapCache.Get (461-467), under the read lock; a hit returns
\* the entry (line 446)
CacheGet(c) ==
  /\ cpc[c] = "get"
  /\ IF cq[c] \in DOMAIN dirty
       THEN /\ cstmt' = [cstmt EXCEPT ![c] = dirty[cq[c]]]
            /\ cret' = [cret EXCEPT ![c] = dirty[cq[c]]]
            /\ cpc' = [cpc EXCEPT ![c] = "returned"]
       ELSE /\ cpc' = [cpc EXCEPT ![c] = "parse"]
            /\ UNCHANGED <<cstmt, cret>>
  /\ UNCHANGED <<dirty, cq, parses>>
  /\ UNCHANGED <<coreVars, exceptCache>>

\* the miss path remembering failures too: nil goes on to Set
CacheParseKeepsNil(c) ==
  /\ cpc[c] = "parse"
  /\ LET p == ParseSQL(cq[c]) IN
       IF p.err \/ Len(p.stmts) = 0
         THEN /\ cstmt' = [cstmt EXCEPT ![c] = NilStmt]
              /\ UNCHANGED parses
         ELSE /\ cstmt' = [cstmt EXCEPT ![c] =
                             [text |-> p.stmts[1], inst |-> parses + 1]]
              /\ parses' = parses + 1
  /\ cpc' = [cpc EXCEPT ![c] = "set"]
  /\ UNCHANGED <<dirty, cq, cret>>
  /\ UNCHANGED <<coreVars, exceptCache>>

\* lines 430-443: a parse error or a query without a statement returns nil;
\* else stmt is the first statement, a node built by this call
CacheParse(c) ==
  /\ cpc[c] = "parse"
  /\ LET p == ParseSQL(cq[c]) IN
       IF p.err \/ Len(p.stmts) = 0
         THEN /\ cpc' = [cpc EXCEPT ![c] = "returned"]
              /\ UNCHANGED <<cstmt, parses>>
         ELSE /\ cstmt' = [cstmt EXCEPT ![c] =
                             [text |-> p.stmts[1], inst |-> parses + 1]]
              /\ parses' = parses + 1
              /\ cpc' = [cpc EXCEPT ![c] = "set"]
  /\ UNCHANGED <<dirty, cq, cret>>
  /\ UNCHANGED <<coreVars, exceptCache>>

\* lines 444-446 and mapCache.Set (469-473), under the write lock
CacheSet(c) ==
  /\ cpc[c] = "set"
  /\ dirty' = [q \in DOMAIN dirty \cup {cq[c]} |->
                 IF q = cq[c] THEN cstmt[c] ELSE dirty[q]]
  /\ cret' = [cret EXCEPT ![c] = cstmt[c]]
  /\ cpc' = [cpc EXCEPT ![c] = "returned"]
  /\ UNCHANGED <<cq, cstmt, parses>>
  /\ UNCHANGED <<coreVars, exceptCache>>

NextCache ==
  \/ \E c \in Callers : ParseCall(c)
  \/ \E c \in Callers : CacheGet(c)
  \/ \E c \in Callers : CacheParse(c)
  \/ \E c \in Callers : CacheSet(c)

SpecCache == Init /\ [][NextCache]_vars

\* what a parse without the cache returns: the text of the first statement,
\* or nil
UncachedText(q) ==
  IF q = "" \/ ParseSQL(q).err \/ Len(ParseSQL(q).stmts) = 0
    THEN NilStmt.text
    ELSE ParseSQL(q).stmts[1]

\* C30: parseWithCache is transparent with respect to its cache under any
\* interleaving of its callers: what it returns is what a parse without the
\* cache returns (the first statement, or nil for an empty, unparsable or
\* statement-less query); nil is never stored; and an entry of the cache is
\* never removed and only replaced by an equivalent statement.
C30_CacheTransparent ==
  /\ [](/\ \A c \in Callers :
            cpc[c] = "returned" => cret[c].text = UncachedText(cq[c])
        /\ \A q \in DOMAIN dirty :
            /\ dirty[q] # NilStmt
            /\ dirty[q].text # NilStmt.text
            /\ dirty[q].text = UncachedText(q))
  /\ [][\A q \in DOMAIN dirty :
          q \in DOMAIN dirty' /\ dirty'[q].text = dirty[q].text]_vars

\* two callers missed on the same query; the later Set replaced the entry of
\* the earlier one by another node for the same statement
C30_Witness ==
  \E c, d \in Callers :
    /\ c # d
    /\ cpc[c] = "returned" /\ cpc[d] = "returned"
    /\ cq[c] = cq[d]
    /\ cret[c] # NilStmt /\ cret[d] # NilStmt
    /\ cret[c].inst # cret[d].inst
    /\ dirty[cq[c]] = cret[d]

====
